---------------------------- MODULE Spec2Model ----------------------------
(***************************************************************************)
(* A model of fafevosim: the feed-forward network of src/net.rs, the       *)
(* simulation clock, run control, neural update and motion systems of      *)
(* src/ecs.rs as bevy schedules them, driven by the buttons of src/gui.rs, *)
(* and the tile world of src/simworld.rs.                                  *)
(*                                                                         *)
(* Numbers.  f32 scalars are fixed-point integers with One standing for    *)
(* 1.0.  Angles are counted in units of pi/8, so that PI is a whole number *)
(* and the sine and cosine of every representable angle come from a table. *)
(* A product is computed exactly and cut to the grid when it is stored.    *)
(***************************************************************************)
EXTENDS Integers, Sequences, FiniteSets, TLC

VARIABLES
    simState,     \* CurrentState<SimulationState>: "Stop" or "Run"
    simMode,      \* CurrentState<SimulationMode>: "Single" or "Auto"
    nextState,    \* the queued NextState<SimulationState> resource, or "None"
    nextMode,     \* the queued NextState<SimulationMode> resource, or "None"
    sim_time,     \* the SimTime resource
    smittys,      \* the spawned Smittys: entity -> its components
    stage,        \* the stage of the host frame that runs next
    ran,          \* the systems of UpdateEntities that have run in this frame
    click,        \* the button clicked in the latest pass of the inspector system
    panicked,     \* "no", or the panic that ended the process
    neural_runs,  \* how many times neural_network_update_system has run
    ticks,        \* how many times update_simulation_time_system has run
    frame_start,  \* the SimTime and the Smittys the current host frame began with
    layers_sizes, \* NN::random's argument (network harness)
    rng,          \* the stream of weights the random generator yields
    created,      \* NN::random's result (network harness)
    inputs,       \* NN::run's argument (network harness)
    run_result,   \* NN::run's result (network harness)
    world,        \* the SimWorld resource
    noise,        \* the noise fields world generation samples
    generated,    \* "no", "yes" once init_generate_world has run, or "panic"
    tile_call     \* the latest call of tile or tile_mut and its result

vars == <<simState, simMode, nextState, nextMode, sim_time, smittys, stage, ran,
          click, panicked, neural_runs, ticks, frame_start, layers_sizes, rng, created,
          inputs, run_result, world, noise, generated, tile_call>>

ecsVars == <<simState, simMode, nextState, nextMode, sim_time, smittys, stage,
             ran, click, panicked, neural_runs, ticks, frame_start>>

nnVars == <<layers_sizes, created, inputs, run_result>>

worldVars == <<world, noise, generated, tile_call>>

harness == <<rng, nnVars, worldVars>>

-----------------------------------------------------------------------------
(* Numbers *)

\* 1.0 (Float::one()); every f32 scalar is a multiple of 1/One.
One == 100

\* std::f32::consts::PI, in angle units of pi/8.
PI == 8

\* The number of world tick frames between two feed-forward executions.
NETWORK_UPDATE_PERIOD == 60

\* WORLD_SIZE, in tiles.
WORLD_SIZE == <<25, 25>>

SMITTY_MAX_MOVE_SPEED == 4 * One

SMITTY_MAX_ROT_SPEED == 8 * PI

Abs(x) == IF x < 0 THEN -x ELSE x

\* x / d cut toward zero: the stored value of an exact quotient.
Quant(x, d) == IF x < 0 THEN -((-x) \div d) ELSE x \div d

\* 100 * sigmoid(k / 4) for k = 0 .. 12, rounded.
SigmoidTable == <<50, 56, 62, 68, 73, 78, 82, 85, 88, 90, 92, 94, 95>>

\* 1 / (1 + exp(-val)) on the grid: exact at 0, monotone, symmetric about 1/2.
SigmoidPos(val) ==
    LET k == (4 * val) \div One
    IN  IF k + 1 <= Len(SigmoidTable) THEN SigmoidTable[k + 1]
        ELSE IF k < 24 THEN One - 2 ELSE One

\* NNActivation::Sigmoid.perform
Sigmoid(val) == IF val >= 0 THEN SigmoidPos(val) ELSE One - SigmoidPos(-val)

\* 100 * cos(k * pi / 8) for k = 0 .. 15, rounded.
CosTable == <<100, 92, 71, 38, 0, -38, -71, -92, -100, -92, -71, -38, 0, 38, 71, 92>>

Cos(a) == CosTable[(a % (2 * PI)) + 1]

Sin(a) == Cos(a - PI \div 2)

-----------------------------------------------------------------------------
(* src/net.rs *)

\* Bounds of the network harness.
MaxLayers == 3
MaxLayerSize == 3

\* The weights rng.gen_range(-0.5 ..= 0.5) can yield, on the grid.
WeightVals == <<-(One \div 2), 0, One \div 2>>

\* The i-th draw (from 0) of the generator whose stream is s: the streams are
\* the three constant ones and the six that cycle through WeightVals.
Draw(s, i) == WeightVals[((s.off + i * s.step) % 3) + 1]

Rngs == [off : 0 .. 2, step : 0 .. 2]

\* The number of weights drawn before layer l (1 = the first layer after the
\* inputs) of a network of the given sizes.
RECURSIVE DrawsBefore(_, _)
DrawsBefore(sizes, l) ==
    IF l <= 1 THEN 0
    ELSE DrawsBefore(sizes, l - 1) + sizes[l] * (sizes[l - 1] + 1)

Ok(v) == [tag |-> "Ok", val |-> v]
Err(e) == [tag |-> "Err", val |-> e]
IsErr(r, e) == r.tag = "Err" /\ r.val = e

\* BuildLayers with a node's weights counted without the threshold weight.
MutBuildLayersNoBias(sizes, s, from) ==
    [l \in 1 .. Len(sizes) - 1 |->
        [n \in 1 .. sizes[l + 1] |->
            [k \in 1 .. sizes[l] |->
                Draw(s, from + DrawsBefore(sizes, l)
                          + (n - 1) * (sizes[l] + 1) + (k - 1))]]]

\* The loop of NN::random that builds the layers: layer l has sizes[l + 1]
\* nodes of prev_layer_size + 1 weights each, drawn in order from s, starting
\* at the draw numbered from.
BuildLayers(sizes, s, from) ==
    [l \in 1 .. Len(sizes) - 1 |->
        [n \in 1 .. sizes[l + 1] |->
            [k \in 1 .. sizes[l] + 1 |->
                Draw(s, from + DrawsBefore(sizes, l)
                          + (n - 1) * (sizes[l] + 1) + (k - 1))]]]

\* NNRandom with its two checks in the other order.
MutNNRandomEmptyFirst(sizes, s, from) ==
    IF \E i \in 1 .. Len(sizes) : sizes[i] < 1 THEN Err("EmptyLayer")
    ELSE IF Len(sizes) < 2 THEN Err("Min2Layers")
    ELSE Ok([layers |-> BuildLayers(sizes, s, from), num_inputs |-> sizes[1]])

\* NN::random, with the generator's stream and position made explicit.
NNRandom(sizes, s, from) ==
    IF Len(sizes) < 2 THEN Err("Min2Layers")
    ELSE IF \E i \in 1 .. Len(sizes) : sizes[i] < 1 THEN Err("EmptyLayer")
    ELSE Ok([layers |-> BuildLayers(sizes, s, from), num_inputs |-> sizes[1]])

Min(a, b) == IF a < b THEN a ELSE b

\* modified_dotprod: the threshold weight plus the weights zipped with the
\* values (zip stops at the shorter of the two).
RECURSIVE DotFrom(_, _, _)
DotFrom(node, values, k) ==
    IF k > Min(Len(node) - 1, Len(values)) THEN 0
    ELSE node[k + 1] * values[k] + DotFrom(node, values, k + 1)

\* modified_dotprod adding the values themselves, not weight * value.
MutDotprodIgnoresWeights(node, values) ==
    node[1] + Quant(DotFrom([k \in 1 .. Len(node) |-> One], values, 1), One)

\* modified_dotprod; the sum is exact and cut to the grid once.
modified_dotprod(node, values) == node[1] + Quant(DotFrom(node, values, 1), One)

\* The results vector of do_run after the first l layers: results[1] is the
\* inputs, results[l + 1] the values of layer l.
RECURSIVE LayerResults(_, _, _)
LayerResults(nn, ins, l) ==
    IF l = 0 THEN <<ins>>
    ELSE LET results == LayerResults(nn, ins, l - 1)
             layer == nn.layers[l]
         IN  Append(results,
                    [n \in 1 .. Len(layer) |->
                        Sigmoid(modified_dotprod(layer[n], results[l]))])

\* NN::do_run
do_run(nn, ins) ==
    IF Len(ins) = nn.num_inputs THEN Ok(LayerResults(nn, ins, Len(nn.layers)))
    ELSE Err("()")

\* NN::run: the last element of do_run's results.
NNRun(nn, ins) ==
    LET r == do_run(nn, ins)
    IN  IF r.tag = "Ok" THEN Ok(r.val[Len(r.val)]) ELSE r

-----------------------------------------------------------------------------
(* src/simworld.rs *)

\* MAX_FOOD = 1.0
MAX_FOOD == One

\* SimTile::default(): SimTileType::Land, food 0.0, max_food 0.0.
DefaultTile == [tile_type |-> "Land", food |-> 0, max_food |-> 0]

\* SimWorld::new: size.0 * size.1 default tiles, flat element i at tiles[i].
SimWorldNew(size) ==
    [size  |-> size,
     tiles |-> [i \in 0 .. size[1] * size[2] - 1 |-> DefaultTile]]

\* SimWorld::index
index(w, pos) == pos[2] * w.size[2] + pos[1]

\* The results of tile and tile_mut: Some with the flat element addressed,
\* None, or the panic of indexing the vector past its end.
SomeTile(i, t) == [tag |-> "Some", at |-> i, val |-> t]
NoTile == [tag |-> "None", at |-> 0, val |-> DefaultTile]
IndexPanic(i) == [tag |-> "Panic", at |-> i, val |-> DefaultTile]

\* SimWorld::tile
tile(w, pos) ==
    IF pos[1] < w.size[1] /\ pos[2] < w.size[2]
    THEN LET i == index(w, pos)
         IN  IF i \in DOMAIN w.tiles THEN SomeTile(i, w.tiles[i])
             ELSE IndexPanic(i)
    ELSE NoTile

\* SimWorld::tile_mut; the reference it returns is to flat element at.
tile_mut(w, pos) ==
    IF pos[1] < w.size[1] /\ pos[2] < w.size[2]
    THEN LET i == index(w, pos)
         IN  IF i \in DOMAIN w.tiles THEN SomeTile(i, w.tiles[i])
             ELSE IndexPanic(i)
    ELSE NoTile

\* The values OpenSimplex::get yields, on the grid: the range [-1, 1].
NoiseVals == <<-One, -(One \div 2), 0, One \div 2, One>>

\* The noise fields: a constant one for each value, and the ones that cycle
\* through NoiseVals along x and y.
NoiseFields == [off : 0 .. 4, step : 0 .. 1]

\* OpenSimplex::get at the scaled coordinates of tile (x, y).
OpenSimplexGet(field, x, y) ==
    NoiseVals[((field.off + (x + 2 * y) * field.step) % 5) + 1]

NoMinMax == [some |-> FALSE, min |-> 0, max |-> 0]
MinMax(min, max) == [some |-> TRUE, min |-> min, max |-> max]

\* NoiseWrap::get that skips the rescale.
MutNoiseGetNoRescale(nw, x, y) == OpenSimplexGet(nw.noise, x, y)

\* NoiseWrap::get
NoiseWrapGet(nw, x, y) ==
    LET v == OpenSimplexGet(nw.noise, x, y)
    IN  IF nw.minmax.some
        THEN Quant(Quant((v + One) * (One \div 2), One)
                       * (nw.minmax.max - nw.minmax.min), One) + nw.minmax.min
        ELSE v

\* The tile the body of init_generate_world's loop writes at (x, y).
GenTile(nz, x, y) ==
    LET noise_type == [noise |-> nz.type, minmax |-> NoMinMax]
        noise_max_food == [noise |-> nz.max_food, minmax |-> MinMax(0, One)]
        max_food == Quant(NoiseWrapGet(noise_max_food, x, y) * MAX_FOOD, One)
    IN  [tile_type |-> IF NoiseWrapGet(noise_type, x, y) < 0 THEN "Land"
                       ELSE "Water",
         food      |-> max_food,
         max_food  |-> max_food]

\* The inner loop of init_generate_world, over x from the given one, in
\* row y: the world it leaves, and whether tile_mut(..).unwrap() panicked.
RECURSIVE GenerateRow(_, _, _, _)
GenerateRow(st, nz, y, x) ==
    IF st.panic \/ x >= st.world.size[1] THEN st
    ELSE LET r == tile_mut(st.world, <<x, y>>)
         IN  IF r.tag # "Some" THEN [st EXCEPT !.panic = TRUE]
             ELSE GenerateRow([st EXCEPT !.world.tiles[r.at] = GenTile(nz, x, y)],
                              nz, y, x + 1)

\* The outer loop of init_generate_world, over y from the given one.
RECURSIVE GenerateFrom(_, _, _)
GenerateFrom(st, nz, y) ==
    IF st.panic \/ y >= st.world.size[2] THEN st
    ELSE GenerateFrom(GenerateRow(st, nz, y, 0), nz, y + 1)

-----------------------------------------------------------------------------
(* src/ecs.rs: components and systems *)

\* The frames a run may tick (bounds the clock).
MaxFrame == 125

\* time.delta_seconds(): the host frame times the model draws from.
Dts == {One \div 2}

\* The constant argument of brain.network.run in neural_network_update_system.
BrainInputs == <<One \div 2, One \div 2>>

\* SimEntityBrain::random: NN::random(&[2, 3, 2]).unwrap()
BrainSizes == <<2, 3, 2>>

\* The Smitty init_scene_system spawns, given its network.
Smitty(network) ==
    [network |-> network,
     pos     |-> <<(WORLD_SIZE[1] * One) \div 2, (WORLD_SIZE[2] * One) \div 2>>,
     rot     |-> 0,
     outputs |-> [move_amt |-> One, rot_amt |-> One],
     traits  |-> [max_move_speed |-> SMITTY_MAX_MOVE_SPEED \div 4,
                  max_rot_speed  |-> SMITTY_MAX_ROT_SPEED \div 4]]

\* The wrap of the new rotation in move_smittys_system.
WrapRot(new_rot) ==
    LET rad == 2 * PI
    IN  IF new_rot < 0 THEN new_rot + rad
        ELSE IF new_rot > rad THEN new_rot - rad
        ELSE new_rot

\* The wrap of one coordinate of the position in move_smittys_system.
WrapPos(c, extent) ==
    IF c < 0 THEN c + extent
    ELSE IF c > extent THEN c - extent
    ELSE c

\* The per-tick turn rot_req * max_rot_speed * delta_seconds of a Smitty.
Turn(s, dt) ==
    LET rot_req == s.outputs.rot_amt * 2 - One
    IN  Quant(rot_req * s.traits.max_rot_speed * dt, One * One)

\* The body of the loop of move_smittys_system, for one Smitty.
\* MoveSmitty that also spends the Smitty's top speed.
MutMoveWearsTraits(s, dt) ==
    LET new_rot == WrapRot(s.rot + Turn(s, dt))
        step(dir) == Quant(dir * s.outputs.move_amt * s.traits.max_move_speed * dt,
                           One * One * One)
        x == WrapPos(s.pos[1] + step(Cos(new_rot)), WORLD_SIZE[1] * One)
        y == WrapPos(s.pos[2] + step(Sin(new_rot)), WORLD_SIZE[2] * One)
    IN  [s EXCEPT !.pos = <<x, y>>, !.rot = new_rot,
                  !.traits.max_move_speed = s.traits.max_move_speed \div 2]

MoveSmitty(s, dt) ==
    LET new_rot == WrapRot(s.rot + Turn(s, dt))
        step(dir) == Quant(dir * s.outputs.move_amt * s.traits.max_move_speed * dt,
                           One * One * One)
        x == WrapPos(s.pos[1] + step(Cos(new_rot)), WORLD_SIZE[1] * One)
        y == WrapPos(s.pos[2] + step(Sin(new_rot)), WORLD_SIZE[2] * One)
    IN  [s EXCEPT !.pos = <<x, y>>, !.rot = new_rot]

\* The loop of neural_network_update_system from entity a on: the Smittys
\* after it, and the panic that cut it short (unwrap of run's Err, or the
\* index of an output the network does not have).
RECURSIVE NeuralUpdateFrom(_, _)
NeuralUpdateFrom(sm, a) ==
    IF a \notin DOMAIN sm THEN [smittys |-> sm, panicked |-> "no"]
    ELSE LET r == NNRun(sm[a].network, BrainInputs)
         IN  IF r.tag = "Err"
             THEN [smittys |-> sm, panicked |-> "unwrap"]
             ELSE IF Len(r.val) < 1
             THEN [smittys |-> sm, panicked |-> "index"]
             ELSE IF Len(r.val) < 2
             THEN [smittys |-> [sm EXCEPT ![a].outputs.move_amt = r.val[1]],
                   panicked |-> "index"]
             ELSE NeuralUpdateFrom(
                      [sm EXCEPT ![a].outputs =
                          [move_amt |-> r.val[1], rot_amt |-> r.val[2]]],
                      a + 1)

\* TickSimTime with delta > NETWORK_UPDATE_PERIOD for delta >= ...
MutTickStrictDelta(t) ==
    LET frame == t.world_frame + 1
        delta == frame - t.last_neural_tick_frame
    IN  IF delta > NETWORK_UPDATE_PERIOD
        THEN [world_frame |-> frame, neural_frame |-> t.neural_frame + 1,
              last_neural_tick_frame |-> frame, is_neural_tick_frame |-> TRUE]
        ELSE [t EXCEPT !.world_frame = frame, !.is_neural_tick_frame = FALSE]

\* TickSimTime without the assignment to last_neural_tick_frame.
MutTickKeepsLast(t) ==
    LET frame == t.world_frame + 1
        delta == frame - t.last_neural_tick_frame
    IN  IF delta >= NETWORK_UPDATE_PERIOD
        THEN [t EXCEPT !.world_frame = frame, !.neural_frame = t.neural_frame + 1,
                       !.is_neural_tick_frame = TRUE]
        ELSE [t EXCEPT !.world_frame = frame, !.is_neural_tick_frame = FALSE]

\* update_simulation_time_system, on the SimTime t.  The counters are u32;
\* MaxFrame keeps them far from 2^32, where frame + 1 would overflow.
TickSimTime(t) ==
    LET frame == t.world_frame + 1
        delta == frame - t.last_neural_tick_frame
    IN  IF delta >= NETWORK_UPDATE_PERIOD
        THEN [world_frame |-> frame, neural_frame |-> t.neural_frame + 1,
              last_neural_tick_frame |-> frame, is_neural_tick_frame |-> TRUE]
        ELSE [t EXCEPT !.world_frame = frame, !.is_neural_tick_frame = FALSE]

\* NeuralRunCondition without run_in_state.
MutNeuralNoStateGate == sim_time.is_neural_tick_frame

\* run_in_state(SimulationState::Run).run_if(is_neural_update_frame_system)
NeuralRunCondition == simState = "Run" /\ sim_time.is_neural_tick_frame

\* EntitiesRunCondition with the neural stages' run_if added.
MutEntitiesOnlyNeural == simState = "Run" /\ sim_time.is_neural_tick_frame

\* ConditionSet::new().run_in_state(SimulationState::Run)
EntitiesRunCondition == simState = "Run"

-----------------------------------------------------------------------------
(* The host frame.  The stages run in the order the plugin builds them:    *)
(* the state transition stages, the three neural stages, UpdateEntities,   *)
(* CoreStage::Update with the inspector system.                            *)

Alive == panicked = "no"

\* The two StateTransitionStages of iyes_loopless: a queued NextState
\* becomes the current state.
StateTransition ==
    /\ Alive
    /\ stage = "Transition"
    /\ sim_time.world_frame < MaxFrame
    /\ simState' = IF nextState = "None" THEN simState ELSE nextState
    /\ simMode' = IF nextMode = "None" THEN simMode ELSE nextMode
    /\ nextState' = "None"
    /\ nextMode' = "None"
    /\ stage' = "Neural"
    /\ ran' = {}
    /\ frame_start' = [sim_time |-> sim_time, smittys |-> smittys]
    /\ UNCHANGED <<sim_time, smittys, click, panicked, neural_runs, ticks, harness>>

\* NeuralUpdateStage::Collect, Update, Perform when their run conditions
\* hold; the collect and perform systems only log.
neural_network_update_system ==
    /\ Alive
    /\ stage = "Neural"
    /\ NeuralRunCondition
    /\ LET res == NeuralUpdateFrom(smittys, 1)
       IN  /\ smittys' = res.smittys
           /\ panicked' = res.panicked
    /\ neural_runs' = neural_runs + 1
    /\ stage' = "Entities"
    /\ UNCHANGED <<simState, simMode, nextState, nextMode, sim_time, ran, click,
                   ticks, frame_start, harness>>

NeuralStagesSkipped ==
    /\ Alive
    /\ stage = "Neural"
    /\ ~NeuralRunCondition
    /\ stage' = "Entities"
    /\ UNCHANGED <<simState, simMode, nextState, nextMode, sim_time, smittys,
                   ran, click, panicked, neural_runs, ticks, frame_start, harness>>

\* UpdateEntities is over when both of its systems have run.
AfterEntities(done) == IF done = {"move", "time"} THEN "Update" ELSE "Entities"

move_smittys_system ==
    /\ Alive
    /\ stage = "Entities"
    /\ EntitiesRunCondition
    /\ "move" \notin ran
    /\ \E dt \in Dts : smittys' = [a \in DOMAIN smittys |-> MoveSmitty(smittys[a], dt)]
    /\ ran' = ran \cup {"move"}
    /\ stage' = AfterEntities(ran')
    /\ UNCHANGED <<simState, simMode, nextState, nextMode, sim_time, click,
                   panicked, neural_runs, ticks, frame_start, harness>>

update_simulation_time_system ==
    /\ Alive
    /\ stage = "Entities"
    /\ EntitiesRunCondition
    /\ "time" \notin ran
    /\ sim_time' = TickSimTime(sim_time)
    /\ ticks' = ticks + 1
    /\ ran' = ran \cup {"time"}
    /\ stage' = AfterEntities(ran')
    /\ UNCHANGED <<simState, simMode, nextState, nextMode, smittys, click,
                   panicked, neural_runs, frame_start, harness>>

EntitiesSkipped ==
    /\ Alive
    /\ stage = "Entities"
    /\ ~EntitiesRunCondition
    /\ stage' = "Update"
    /\ UNCHANGED <<simState, simMode, nextState, nextMode, sim_time, smittys,
                   ran, click, panicked, neural_runs, ticks, frame_start, harness>>

-----------------------------------------------------------------------------
(* src/gui.rs: the buttons of smitty_inspector_egui_system.  A button is   *)
(* enabled by the state the system reads; its command is applied when the  *)
(* stage ends.                                                             *)

StartEnabled == simState = "Stop"

\* The Stop button enabled in every state.
MutStopAlwaysEnabled == TRUE

StopEnabled == simState = "Run"

StepEnabled == simState = "Stop"

\* What the "Step Frame" button inserts: NextState(SimulationMode::Single).
StepCommand ==
    /\ nextMode' = "Single"
    /\ UNCHANGED nextState

ClickStart ==
    /\ Alive
    /\ stage = "Update"
    /\ StartEnabled
    /\ nextState' = "Run"
    /\ click' = "start"
    /\ stage' = "Transition"
    /\ UNCHANGED <<simState, simMode, nextMode, sim_time, smittys, ran,
                   panicked, neural_runs, ticks, frame_start, harness>>

ClickStop ==
    /\ Alive
    /\ stage = "Update"
    /\ StopEnabled
    /\ nextState' = "Stop"
    /\ click' = "stop"
    /\ stage' = "Transition"
    /\ UNCHANGED <<simState, simMode, nextMode, sim_time, smittys, ran,
                   panicked, neural_runs, ticks, frame_start, harness>>

ClickStep ==
    /\ Alive
    /\ stage = "Update"
    /\ StepEnabled
    /\ StepCommand
    /\ click' = "step"
    /\ stage' = "Transition"
    /\ UNCHANGED <<simState, simMode, sim_time, smittys, ran, panicked,
                   neural_runs, ticks, frame_start, harness>>

NoClick ==
    /\ Alive
    /\ stage = "Update"
    /\ click' = "none"
    /\ stage' = "Transition"
    /\ UNCHANGED <<simState, simMode, nextState, nextMode, sim_time, smittys,
                   ran, panicked, neural_runs, ticks, frame_start, harness>>

-----------------------------------------------------------------------------
(* The program as main builds it *)

FreshSimTime ==
    [world_frame |-> 0, neural_frame |-> 0, last_neural_tick_frame |-> 0,
     is_neural_tick_frame |-> FALSE]

\* NetworkEcsPlugin::build: the resources and states it adds.
InitPlugin ==
    /\ simState = "Stop"
    /\ simMode = "Single"
    /\ nextState = "None"
    /\ nextMode = "None"
    /\ sim_time = FreshSimTime
    /\ stage = "Transition"
    /\ ran = {}
    /\ click = "none"
    /\ panicked = "no"
    /\ neural_runs = 0
    /\ ticks = 0

\* No host frame has begun: frame_start is the state the plugin starts in.
NoFrameYet == frame_start = [sim_time |-> sim_time, smittys |-> smittys]

\* Nothing called yet.
NotCalled == [tag |-> "None", val |-> "none"]

\* No call of tile or tile_mut yet.
NoTileCall == [op |-> "none", pos |-> <<0, 0>>, res |-> NoTile]

\* The world left out: no tiles, nothing generated, nothing called.
WorldIdle ==
    /\ world = SimWorldNew(<<0, 0>>)
    /\ noise = [type |-> [off |-> 0, step |-> 0],
                max_food |-> [off |-> 0, step |-> 0]]
    /\ generated = "no"
    /\ tile_call = NoTileCall

\* The network harness left out.
NNIdle ==
    /\ layers_sizes = <<>>
    /\ created = NotCalled
    /\ inputs = <<>>
    /\ run_result = NotCalled

HarnessIdle ==
    /\ NNIdle
    /\ WorldIdle

\* init_scene_system: one Smitty, its brain random.
Init ==
    /\ InitPlugin
    /\ rng \in Rngs
    /\ smittys = [a \in {1} |-> Smitty(NNRandom(BrainSizes, rng, 0).val)]
    /\ NoFrameYet
    /\ HarnessIdle

Next ==
    \/ StateTransition
    \/ neural_network_update_system
    \/ NeuralStagesSkipped
    \/ move_smittys_system
    \/ update_simulation_time_system
    \/ EntitiesSkipped
    \/ ClickStart
    \/ ClickStop
    \/ ClickStep
    \/ NoClick

Spec == Init /\ [][Next]_vars

-----------------------------------------------------------------------------
(* The plugin with Smittys of a configured topology: SmittyBundle and      *)
(* NN::random are public, and the network topology is configuration.       *)

Topologies == {BrainSizes, <<3, 2>>, <<2, 2>>}

\* Two Smittys spawned one after the other, their weights drawn from the one
\* generator.
InitCfg ==
    /\ InitPlugin
    /\ rng \in Rngs
    /\ \E s1 \in Topologies, s2 \in Topologies :
          smittys = [a \in {1, 2} |->
                        IF a = 1 THEN Smitty(NNRandom(s1, rng, 0).val)
                        ELSE Smitty(NNRandom(s2, rng,
                                             DrawsBefore(s1, Len(s1))).val)]
    /\ NoFrameYet
    /\ HarnessIdle

SpecCfg == InitCfg /\ [][Next]_vars

-----------------------------------------------------------------------------
(* The network on its own: NN::random on any sizes, then NN::run on any    *)
(* inputs.                                                                 *)

SizeSeqs == UNION {[1 .. n -> 0 .. MaxLayerSize] : n \in 0 .. MaxLayers}

InputVals == {-One, 0, One}

InputVecs == UNION {[1 .. n -> InputVals] : n \in 0 .. MaxLayerSize}

InitNN ==
    /\ InitPlugin
    /\ smittys = <<>>
    /\ NoFrameYet
    /\ rng \in Rngs
    /\ layers_sizes \in SizeSeqs
    /\ created = NotCalled
    /\ inputs = <<>>
    /\ run_result = NotCalled
    /\ WorldIdle

CallRandom ==
    /\ created.tag = "None"
    /\ created' = NNRandom(layers_sizes, rng, 0)
    /\ UNCHANGED <<ecsVars, rng, layers_sizes, inputs, run_result, worldVars>>

CallRun ==
    /\ created.tag = "Ok"
    /\ run_result.tag = "None"
    /\ \E ins \in InputVecs :
          /\ inputs' = ins
          /\ run_result' = NNRun(created.val, ins)
    /\ UNCHANGED <<ecsVars, rng, layers_sizes, created, worldVars>>

NextNN ==
    \/ CallRandom
    \/ CallRun

SpecNN == InitNN /\ [][NextNN]_vars

\* C6, as stated: NN::random fails with Min2Layers on every sequence shorter
\* than 2, fails with EmptyLayer whenever a size is 0, and succeeds on every
\* other sequence.
C6_Orig ==
    created.tag # "None" =>
        LET short == Len(layers_sizes) < 2
            empty == \E i \in 1 .. Len(layers_sizes) : layers_sizes[i] = 0
        IN  /\ short => IsErr(created, "Min2Layers")
            /\ empty => IsErr(created, "EmptyLayer")
            /\ (~short /\ ~empty) => created.tag = "Ok"

\* C6, amended: NN::random fails with Min2Layers on every sequence shorter
\* than 2 (a size of 0 in it or not), fails with EmptyLayer on every
\* sequence of 2 or more sizes one of which is 0, and succeeds on every
\* other sequence.
C6_CreateOutcome ==
    created.tag # "None" =>
        LET short == Len(layers_sizes) < 2
            empty == \E i \in 1 .. Len(layers_sizes) : layers_sizes[i] = 0
        IN  /\ short => IsErr(created, "Min2Layers")
            /\ (~short /\ empty) => IsErr(created, "EmptyLayer")
            /\ (~short /\ ~empty) => created.tag = "Ok"
            /\ created.tag \in {"Ok", "Err"}

\* The sequence <<0>>: too short, and with an empty layer.
C6_Witness ==
    /\ layers_sizes = <<0>>
    /\ IsErr(created, "Min2Layers")

\* C7: a network built from sizes s0 .. sn has n layers, layer i of s(i)
\* nodes, each of s(i-1) + 1 weights, and num_inputs = s0; run on an input
\* vector of length s0 succeeds with a vector of length sn, and on any other
\* vector it fails.
C7_Shape ==
    created.tag = "Ok" =>
        LET nn == created.val
            n == Len(layers_sizes) - 1
        IN  /\ Len(nn.layers) = n
            /\ nn.num_inputs = layers_sizes[1]
            /\ \A l \in 1 .. n :
                  /\ Len(nn.layers[l]) = layers_sizes[l + 1]
                  /\ \A k \in 1 .. Len(nn.layers[l]) :
                        Len(nn.layers[l][k]) = layers_sizes[l] + 1
            /\ run_result.tag # "None" =>
                  IF Len(inputs) = layers_sizes[1]
                  THEN /\ run_result.tag = "Ok"
                       /\ Len(run_result.val) = layers_sizes[n + 1]
                  ELSE run_result.tag = "Err"

C7_Witness ==
    /\ layers_sizes = <<2, 3, 1>>
    /\ run_result.tag = "Ok"
    /\ Len(run_result.val) = 1

ZeroWeights(nn) ==
    \A l \in 1 .. Len(nn.layers) : \A n \in 1 .. Len(nn.layers[l]) :
        \A k \in 1 .. Len(nn.layers[l][n]) : nn.layers[l][n][k] = 0

\* C9: run on a network whose weights are all 0 returns sigmoid(0) = 0.5 in
\* every output, whatever the inputs.
C9_ZeroWeights ==
    (created.tag = "Ok" /\ ZeroWeights(created.val) /\ run_result.tag = "Ok")
        => \A i \in 1 .. Len(run_result.val) : 2 * run_result.val[i] = One

C9_Witness ==
    /\ layers_sizes = <<2, 3, 2>>
    /\ created.tag = "Ok"
    /\ ZeroWeights(created.val)
    /\ inputs = <<One, -One>>
    /\ run_result.tag = "Ok"
    /\ run_result.val = <<One \div 2, One \div 2>>

-----------------------------------------------------------------------------
(* The clock *)

\* C1: after k ticks from a fresh clock world_frame = k, is_neural_tick_frame
\* holds iff k is a positive multiple of the period P, neural_frame is
\* floor(k / P) and last_neural_tick_frame is P * floor(k / P); so ticks
\* 1 .. 59 give false, tick 60 gives true, and the next true is tick 120.
C1_TickArithmetic ==
    LET k == ticks
        P == NETWORK_UPDATE_PERIOD
    IN  /\ sim_time.world_frame = k
        /\ sim_time.is_neural_tick_frame = (k > 0 /\ k % P = 0)
        /\ sim_time.neural_frame = k \div P
        /\ sim_time.last_neural_tick_frame = P * (k \div P)

C1_Witness ==
    /\ ticks = 2 * NETWORK_UPDATE_PERIOD
    /\ sim_time.is_neural_tick_frame
    /\ sim_time.neural_frame = 2
    /\ sim_time.last_neural_tick_frame = 2 * NETWORK_UPDATE_PERIOD

\* C3, as stated: in every reachable state is_neural_tick_frame holds iff
\* world_frame - last_neural_tick_frame >= NEURAL_PERIOD.
C3_Orig ==
    sim_time.is_neural_tick_frame
        <=> (sim_time.world_frame - sim_time.last_neural_tick_frame
                >= NETWORK_UPDATE_PERIOD)

\* C3, amended: the flag tells that the latest tick found the period elapsed
\* and reset the reference frame.  In every reachable state it holds iff
\* world_frame >= 1 and last_neural_tick_frame = world_frame, and
\* world_frame - last_neural_tick_frame stays below the period.
C3_FlagIffJustReset ==
    /\ sim_time.is_neural_tick_frame
           <=> (sim_time.world_frame >= 1
                /\ sim_time.last_neural_tick_frame = sim_time.world_frame)
    /\ sim_time.world_frame - sim_time.last_neural_tick_frame < NETWORK_UPDATE_PERIOD
    /\ sim_time.world_frame - sim_time.last_neural_tick_frame >= 0

C3_Witness ==
    /\ sim_time.is_neural_tick_frame
    /\ sim_time.world_frame = NETWORK_UPDATE_PERIOD
    /\ sim_time.last_neural_tick_frame = NETWORK_UPDATE_PERIOD

-----------------------------------------------------------------------------
(* Run control *)

\* C2, as stated: a step command issued while Stopped makes the next frame
\* execute one tick, and a tick that completes while the mode is Single
\* leaves the state Stopped (or its return to Stopped queued).  At the
\* inspector's stage click still names the button of the frame before, and
\* ran the systems of this frame.
C2_Orig ==
    /\ (stage = "Update" /\ click = "step") => "time" \in ran
    /\ (stage = "Update" /\ "time" \in ran /\ simMode = "Single")
           => (simState = "Stop" \/ nextState = "Stop")

\* C4: no step taken while the state is Stopped changes the clock, a
\* Smitty's cached outputs, position or rotation, or runs a neural update or
\* a tick.
C4_StoppedChangesNothing ==
    [][simState = "Stop" => UNCHANGED <<sim_time, smittys, neural_runs, ticks>>]_vars

\* A frame whose stages have passed while Stopped, the neural flag set.
C4_Witness ==
    /\ simState = "Stop"
    /\ stage = "Update"
    /\ sim_time.is_neural_tick_frame
    /\ ticks = NETWORK_UPDATE_PERIOD

\* C5: the state changes from Stopped to Running only by a start command and
\* from Running to Stopped only by a stop command; start is accepted only
\* in Stopped and stop only in Running, and each takes effect at the next
\* state transition; no tick changes the state, so that once Running the
\* state stays Running until a stop command.
C5_TransitionTable ==
    [][/\ (simState = "Stop" /\ simState' = "Run") => click = "start"
       /\ (simState = "Run" /\ simState' = "Stop") => click = "stop"
       /\ (stage = "Update" /\ click' = "start")
              => (simState = "Stop" /\ nextState' = "Run")
       /\ (stage = "Update" /\ click' = "stop")
              => (simState = "Run" /\ nextState' = "Stop")
       /\ (stage = "Transition" /\ stage' = "Neural" /\ click = "start")
              => simState' = "Run"
       /\ (stage = "Transition" /\ stage' = "Neural" /\ click = "stop")
              => simState' = "Stop"
       /\ (ticks' # ticks) => (simState = "Run" /\ simState' = "Run"
                               /\ nextState' = nextState)
      ]_vars

\* Running through several ticks after a start, and stopped again later.
C5_Witness ==
    /\ simState = "Stop"
    /\ click = "stop"
    /\ stage = "Neural"
    /\ ticks >= 3

-----------------------------------------------------------------------------
(* The world of the program: SimWorldPlugin inserts SimWorld::default(),    *)
(* init_generate_world fills it at startup, and the tile inspector reads    *)
(* the tile under the cursor.                                               *)

\* The ECS and the network harness left out.
OnlyWorld ==
    /\ InitPlugin
    /\ smittys = <<>>
    /\ NoFrameYet
    /\ rng = [off |-> 0, step |-> 0]
    /\ NNIdle

InitWorld ==
    /\ OnlyWorld
    /\ world = SimWorldNew(WORLD_SIZE)
    /\ noise \in [type : NoiseFields, max_food : NoiseFields]
    /\ generated = "no"
    /\ tile_call = NoTileCall

init_generate_world ==
    /\ generated = "no"
    /\ LET g == GenerateFrom([world |-> world, panic |-> FALSE], noise, 0)
       IN  /\ world' = g.world
           /\ generated' = IF g.panic THEN "panic" ELSE "yes"
    /\ UNCHANGED <<ecsVars, rng, nnVars, noise, tile_call>>

\* The tile positions update_cursor_pos can store: a corner, the middle and
\* the far corner of the square it admits.
CursorTiles ==
    LET c == {0, WORLD_SIZE[1] \div 2, WORLD_SIZE[1] - 1}
    IN  c \X c

\* The tile inspector window of smitty_inspector_egui_system.
InspectTile ==
    /\ generated = "yes"
    /\ \E pos \in CursorTiles :
          tile_call' = [op |-> "tile", pos |-> pos, res |-> tile(world, pos)]
    /\ UNCHANGED <<ecsVars, rng, nnVars, world, noise, generated>>

NextWorld ==
    \/ init_generate_world
    \/ InspectTile

SpecWorld == InitWorld /\ [][NextWorld]_vars

\* C12: once init_generate_world has run, every tile of the world has
\* 0 <= food <= max_food <= MAX_FOOD and food = max_food, and every flat
\* element of the tile array is the tile generated for a coordinate of the
\* world: none is left out.
C12_GeneratedTiles ==
    generated # "no" =>
        /\ generated = "yes"
        /\ \A i \in DOMAIN world.tiles :
              /\ 0 <= world.tiles[i].food
              /\ world.tiles[i].food = world.tiles[i].max_food
              /\ world.tiles[i].max_food <= MAX_FOOD
        /\ \A x \in 0 .. world.size[1] - 1 : \A y \in 0 .. world.size[2] - 1 :
              LET r == tile(world, <<x, y>>)
              IN  r.tag = "Some" /\ r.val = GenTile(noise, x, y)
        /\ {index(world, <<x, y>>) : x \in 0 .. world.size[1] - 1,
                                     y \in 0 .. world.size[2] - 1}
              = DOMAIN world.tiles

\* A generated world whose noise reached both ends of its range: a tile
\* with no food and a tile with MAX_FOOD, both read by the inspector's call.
C12_Witness ==
    /\ generated = "yes"
    /\ tile_call.op = "tile"
    /\ \E i \in DOMAIN world.tiles : world.tiles[i].max_food = 0
    /\ \E i \in DOMAIN world.tiles : world.tiles[i].max_food = MAX_FOOD
    /\ \E i \in DOMAIN world.tiles :
          world.tiles[i].food > 0 /\ world.tiles[i].food < MAX_FOOD

-----------------------------------------------------------------------------
(* The grid on its own: SimWorld::new on any size, then tile and tile_mut   *)
(* on any coordinate.                                                       *)

\* The largest width and height of the grid harness.
MaxGrid == 3

GridSizes == (1 .. MaxGrid) \X (1 .. MaxGrid)

GridCoords == (0 .. MaxGrid) \X (0 .. MaxGrid)

\* The tile a caller writes through the reference tile_mut returns.
FedTile == [tile_type |-> "Water", food |-> One, max_food |-> One]

InitGrid ==
    /\ OnlyWorld
    /\ world \in {SimWorldNew(s) : s \in GridSizes}
    /\ noise = [type |-> [off |-> 0, step |-> 0],
                max_food |-> [off |-> 0, step |-> 0]]
    /\ generated = "no"
    /\ tile_call = NoTileCall

CallTile ==
    /\ tile_call.res.tag # "Panic"
    /\ \E pos \in GridCoords :
          tile_call' = [op |-> "tile", pos |-> pos, res |-> tile(world, pos)]
    /\ UNCHANGED <<ecsVars, rng, nnVars, world, noise, generated>>

CallTileMut ==
    /\ tile_call.res.tag # "Panic"
    /\ \E pos \in GridCoords :
          LET r == tile_mut(world, pos)
          IN  /\ tile_call' = [op |-> "tile_mut", pos |-> pos, res |-> r]
              /\ world' = IF r.tag = "Some"
                          THEN [world EXCEPT !.tiles[r.at] = FedTile]
                          ELSE world
    /\ UNCHANGED <<ecsVars, rng, nnVars, noise, generated>>

NextGrid ==
    \/ CallTile
    \/ CallTileMut

SpecGrid == InitGrid /\ [][NextGrid]_vars

InGrid(w, pos) == pos[1] < w.size[1] /\ pos[2] < w.size[2]

\* C13, as stated: on a grid of any width and height of 1 or more, tile and
\* tile_mut return a tile exactly when x < W and y < H and None otherwise,
\* and never fail or address storage outside the W * H tiles.
C13_Orig ==
    tile_call.op # "none" =>
        /\ tile_call.res.tag # "Panic"
        /\ InGrid(world, tile_call.pos) <=> tile_call.res.tag = "Some"
        /\ tile_call.res.tag = "Some" =>
              tile_call.res.at \in 0 .. world.size[1] * world.size[2] - 1

\* C17, as stated: a write through tile_mut(x, y) on a grid of any width W
\* and height H goes to flat element y * W + x, is read back by tile(x, y),
\* and leaves the tile at every other coordinate of the grid as it was
\* (stated for the calls that return).
C17_Orig ==
    [][(/\ tile_call' # tile_call
        /\ tile_call'.op = "tile_mut"
        /\ tile_call'.res.tag # "Panic"
        /\ InGrid(world, tile_call'.pos))
       => (/\ tile_call'.res.tag = "Some"
           /\ tile_call'.res.at
                = tile_call'.pos[2] * world.size[1] + tile_call'.pos[1]
           /\ tile(world', tile_call'.pos).tag = "Some"
           /\ tile(world', tile_call'.pos).val = FedTile
           /\ \A q \in GridCoords :
                 (InGrid(world, q) /\ q # tile_call'.pos)
                    => tile(world', q) = tile(world, q))
      ]_vars

-----------------------------------------------------------------------------
(* The phases of a host frame *)

\* The neural update ran in the current host frame (the frame is past its
\* neural stages): the state is Run and is_neural_update_frame_system read
\* true at the frame's start.
NeuralFrame == simState = "Run" /\ frame_start.sim_time.is_neural_tick_frame

\* The Smittys as the neural stages of the current host frame left them.
AfterNeural ==
    IF NeuralFrame THEN NeuralUpdateFrom(frame_start.smittys, 1).smittys
    ELSE frame_start.smittys

\* The host frame is over its simulation stages, in the state Run.
TickDone == stage = "Update" /\ simState = "Run"

\* C14: every host frame run in the state Run moves every Smitty, the
\* frames without a neural update too; a frame without a neural update
\* leaves every Smitty's outputs as they were when it began; and no step
\* but the neural update, which runs only when is_neural_tick_frame reads
\* true, changes a Smitty's outputs.
C14_MotionEveryTick ==
    /\ [](TickDone =>
            /\ "move" \in ran
            /\ \E dt \in Dts :
                  \A a \in DOMAIN smittys :
                      smittys[a] = MoveSmitty(AfterNeural[a], dt)
            /\ ~NeuralFrame =>
                  \A a \in DOMAIN smittys :
                      smittys[a].outputs = frame_start.smittys[a].outputs)
    /\ [][(\E a \in DOMAIN smittys : smittys'[a].outputs # smittys[a].outputs)
            => (/\ stage = "Neural"
                /\ simState = "Run"
                /\ sim_time.is_neural_tick_frame
                /\ neural_runs' = neural_runs + 1)]_vars

\* A frame without a neural update has moved the Smitty, whose outputs are
\* those of an earlier neural update and no longer the ones it was spawned
\* with.
C14_Witness ==
    /\ TickDone
    /\ ~NeuralFrame
    /\ neural_runs >= 1
    /\ ran = {"move", "time"}
    /\ \E a \in DOMAIN smittys :
          /\ smittys[a].outputs # [move_amt |-> One, rot_amt |-> One]
          /\ smittys[a].pos # frame_start.smittys[a].pos

\* C15, as stated: in every tick the scheduler update runs first, then the
\* neural evaluation, then the motion integration; and the neural
\* evaluation runs in a frame exactly when the scheduler update of that
\* same frame set is_neural_tick_frame.
C15_Orig ==
    [][/\ (neural_runs' # neural_runs) => "time" \in ran
       /\ ("move" \in ran' /\ "move" \notin ran) => "time" \in ran
       /\ (stage = "Entities" /\ stage' = "Update" /\ simState = "Run")
             => (sim_time'.is_neural_tick_frame <=> NeuralFrame)
      ]_vars

\* C16, as stated: when a host frame is over, neural_frame is the number of
\* neural updates that have run.
C16_Orig ==
    stage \in {"Update", "Transition"} => sim_time.neural_frame = neural_runs

\* C18: update_simulation_time_system writes the SimTime alone; the neural
\* update writes the outputs of the Smittys alone; move_smittys_system
\* writes each Smitty's position and rotation alone, from that Smitty's own
\* components; and a frame that ran the two systems of UpdateEntities, in
\* whichever order, ends with the SimTime ticked once and every Smitty
\* moved once from the state the neural stages left.
C18_PhaseWrites ==
    /\ [][/\ (ticks' # ticks) =>
                /\ smittys' = smittys
                /\ sim_time' = TickSimTime(sim_time)
          /\ (neural_runs' # neural_runs) =>
                /\ sim_time' = sim_time
                /\ \A a \in DOMAIN smittys :
                      smittys'[a] = [smittys[a] EXCEPT
                                        !.outputs = smittys'[a].outputs]
          /\ ("move" \in ran' /\ "move" \notin ran) =>
                /\ sim_time' = sim_time
                /\ \A a \in DOMAIN smittys :
                      /\ smittys'[a] = [smittys[a] EXCEPT
                                           !.pos = smittys'[a].pos,
                                           !.rot = smittys'[a].rot]
                      /\ \E dt \in Dts : smittys'[a] = MoveSmitty(smittys[a], dt)
         ]_vars
    /\ [](TickDone =>
            /\ sim_time = TickSimTime(frame_start.sim_time)
            /\ \E dt \in Dts :
                  smittys = [a \in DOMAIN smittys |-> MoveSmitty(AfterNeural[a], dt)])

\* A frame with a neural update has run both systems of UpdateEntities on
\* two Smittys: the outputs of both are new, and both have turned.
C18_Witness ==
    /\ TickDone
    /\ NeuralFrame
    /\ ran = {"move", "time"}
    /\ \A a \in DOMAIN smittys :
          /\ smittys[a].outputs # frame_start.smittys[a].outputs
          /\ smittys[a].rot # frame_start.smittys[a].rot
    /\ Cardinality(DOMAIN smittys) = 2

-----------------------------------------------------------------------------
(* Motion *)

\* C10, as stated: a Smitty whose rotation is in [0, 2 pi) and whose outputs
\* and per-tick turn are in range has a rotation in [0, 2 pi) after
\* move_smittys_system.
C10_Orig ==
    [][\A a \in DOMAIN smittys : \A dt \in Dts :
          (/\ smittys' = [b \in DOMAIN smittys |-> MoveSmitty(smittys[b], dt)]
           /\ "move" \in ran' /\ "move" \notin ran
           /\ smittys[a].rot >= 0 /\ smittys[a].rot < 2 * PI
           /\ smittys[a].outputs.rot_amt >= 0 /\ smittys[a].outputs.rot_amt <= One
           /\ Abs(Turn(smittys[a], dt)) < 2 * PI)
          => (smittys'[a].rot >= 0 /\ smittys'[a].rot < 2 * PI)
      ]_vars

\* A position lies in the half-open world rectangle [0, W) x [0, H).
InWorld(pos) ==
    /\ pos[1] >= 0 /\ pos[1] < WORLD_SIZE[1] * One
    /\ pos[2] >= 0 /\ pos[2] < WORLD_SIZE[2] * One

\* The longest displacement one tick can give a Smitty on an axis: the
\* magnitude of its move output times its speed times the frame time.
Stride(s, dt) ==
    Quant(Abs(s.outputs.move_amt) * s.traits.max_move_speed * dt, One * One)

\* C11, as stated: a Smitty whose position is in [0, W) x [0, H) and whose
\* displacement per tick is smaller than the world's extent on each axis has
\* a position in [0, W) x [0, H) after move_smittys_system.
C11_Orig ==
    [][\A a \in DOMAIN smittys : \A dt \in Dts :
          (/\ smittys' = [b \in DOMAIN smittys |-> MoveSmitty(smittys[b], dt)]
           /\ "move" \in ran' /\ "move" \notin ran
           /\ InWorld(smittys[a].pos)
           /\ Stride(smittys[a], dt) < WORLD_SIZE[1] * One
           /\ Stride(smittys[a], dt) < WORLD_SIZE[2] * One)
          => InWorld(smittys'[a].pos)
      ]_vars

-----------------------------------------------------------------------------
(* Errors of the neural update *)

\* The outputs a Smitty is spawned with.
SpawnOutputs == [move_amt |-> One, rot_amt |-> One]

\* C8, as stated: when run fails on a Smitty's network in a neural update,
\* the process goes on, and that Smitty keeps the outputs it had.
C8_Orig ==
    \A a \in DOMAIN smittys :
        (neural_runs >= 1 /\ NNRun(smittys[a].network, BrainInputs).tag = "Err")
            => (panicked = "no" /\ smittys[a].outputs = SpawnOutputs)

=============================================================================
